---- MODULE Spec2Model ----
(***************************************************************************)
(* PathHero, Server/util/database.js: the Users and Hunts collections and  *)
(* the promise-returning operations on them.  Every exported function is   *)
(* one "call": its synchronous part is one action, and each callback that  *)
(* the storage engine (monk) or the hasher (bcrypt-nodejs) later fires is   *)
(* another action, so calls interleave exactly at the callback boundaries. *)
(***************************************************************************)
EXTENDS Integers, Sequences, FiniteSets, TLC

VARIABLES
    Users,   \* db.get('Users'): the documents in insertion order
    Hunts,   \* db.get('Hunts'): the documents in insertion order
    calls,   \* every invocation of an exported function, in invocation order
    nextId   \* number of ObjectIDs the driver has generated (hunts.id())

vars == <<Users, Hunts, calls, nextId>>

-----------------------------------------------------------------------------
(* Bounds of the model *)

MaxUserCalls == 2    \* invocations in a behaviour of SpecUsers
MaxHuntCalls == 2    \* invocations in a behaviour of SpecHunts
MaxCalls == 1        \* invocations in a behaviour of Spec and of FairSpec

-----------------------------------------------------------------------------
(* JavaScript values that occur as results.  A value is tagged with its     *)
(* type so that null, a number, a string and a document stay distinct.      *)

JsNull == [type |-> "null"]
JsUndefined == [type |-> "undefined"]
JsString(s) == [type |-> "string", s |-> s]
JsNumber(n) == [type |-> "number", n |-> n]
JsDoc(d) == [type |-> "object", doc |-> d]
JsArray(a) == [type |-> "array", items |-> a]
JsError(cause) == [type |-> "Error", cause |-> cause]

\* what the storage engine or the hasher reports when it fails
StoreFailure == "store failure"
HashFailure == "hash failure"

-----------------------------------------------------------------------------
(* Inputs *)

UserIds == {"alice", "bob"}

\* "" stands for an omitted or empty password: both are falsy in `password ||`
DecoyPassword == "decoy-cleartext"
Passwords == {"", "pw1", "pw2"}

\* passwords offered to validateUser: the decoy's cleartext is one of them
ValidatePasswords == {"", "pw1", DecoyPassword}

\* values Math.random().toString() can return (never the empty string)
RandomStrings == {"0.4217"}

\* salts bcrypt.hash can draw
Salts == {"saltA", "saltB"}

-----------------------------------------------------------------------------
(* Credential hasher: bcrypt-nodejs *)

\* the digest bcrypt derives from a salt and a password; the salt is kept
\* in the hash string, the password is not recoverable from the digest
Bcrypt(password, salt) == [salt |-> salt, digest |-> <<salt, password>>]

\* bcrypt.compare re-hashes the candidate with the salt stored in the hash
BcryptCompare(password, secret) == Bcrypt(password, secret.salt) = secret

\* the fixed decoy of validateUser: a real hash of a cleartext nobody stores
dummySecret == Bcrypt(DecoyPassword, "alyHIMMFmX4dDzTB8FwtBu")

-----------------------------------------------------------------------------
(* Q deferreds and the monk promise adapter *)

Resolved(v) == [out |-> "resolved", value |-> v]
Rejected(e) == [out |-> "rejected", value |-> JsError(e)]

\* a monk reply is [ok |-> TRUE, item |-> v] or [ok |-> FALSE, error |-> e]
MonkSuccess(item) == [ok |-> TRUE, item |-> item]
MonkError(e) == [ok |-> FALSE, error |-> e]

Settled(c) == c.out # "pending"

\* the calls that had settled when a new call is invoked
SettledCalls == {k \in 1..Len(calls) : Settled(calls[k])}

\* deferred.resolve / deferred.reject on call i: only the first one counts
Settle(i, outcome) ==
    calls' = [calls EXCEPT ![i] =
        IF Settled(@) THEN @
        ELSE [@ EXCEPT !.out = outcome.out, !.value = outcome.value, !.pc = "done"]]

\* no storage or hash call of the invocation has failed
NoFailure == "none"

\* an error callback fires on call i: the storage engine or the hasher has
\* failed with cause, and the handler the code registered settles the call
Fail(i, cause, outcome) ==
    calls' = [calls EXCEPT ![i] =
        [(IF Settled(@) THEN @
          ELSE [@ EXCEPT !.out = outcome.out, !.value = outcome.value, !.pc = "done"])
            EXCEPT !.failed = cause]]

-----------------------------------------------------------------------------
(* Users collection *)

UserIndexes(users, userid) == {k \in 1..Len(users) : users[k].userid = userid}

Min(S) == CHOOSE m \in S : \A n \in S : m <= n

\* findOne({userid: userid}): the first match in natural order, or null
FindOneUser(users, userid) ==
    IF UserIndexes(users, userid) = {} THEN JsNull
    ELSE JsDoc(users[Min(UserIndexes(users, userid))])

\* (mutant) a plain insert in place of the upsert
FindAndModifyUserInserts(users, userid, hash) ==
    [reply |-> FindOneUser(users, userid),
     users |-> Append(users, [userid |-> userid, secret |-> hash])]

\* (mutant) $set in place of $setOnInsert: an existing secret is overwritten
FindAndModifyUserSets(users, userid, hash) ==
    [reply |-> FindOneUser(users, userid),
     users |-> IF UserIndexes(users, userid) = {}
               THEN Append(users, [userid |-> userid, secret |-> hash])
               ELSE [users EXCEPT ![Min(UserIndexes(users, userid))].secret = hash]]

\* findAndModify({userid}, {$setOnInsert: {userid, secret}}, {upsert: true, new: false}):
\* one atomic step of the engine; the reply is the state before the step
FindAndModifyUser(users, userid, hash) ==
    [reply |-> FindOneUser(users, userid),
     users |-> IF UserIndexes(users, userid) = {}
               THEN Append(users, [userid |-> userid, secret |-> hash])
               ELSE users]

-----------------------------------------------------------------------------
(* findOrCreateUser *)

\* (mutant) without `password || Math.random().toString()`: an omitted
\* password is hashed as it came
findOrCreateUserHashesEmpty(limit, userid, password) ==
    /\ Len(calls) < limit
    /\ calls' = Append(calls,
          [op |-> "findOrCreateUser", userid |-> userid, arg |-> password,
           password |-> password,
           pc |-> "hashPassword", hash |-> JsUndefined,
           failed |-> NoFailure, issued |-> <<"hash">>,
           out |-> "pending", value |-> JsUndefined, prior |-> SettledCalls])
    /\ UNCHANGED <<Users, Hunts, nextId>>

\* the synchronous part: the effective password is chosen and hashing starts.
\* issued lists the storage and hash calls the invocation has made so far,
\* failed is the cause of the one that failed.
findOrCreateUser(limit, userid, password) ==
    /\ Len(calls) < limit
    /\ \E random \in RandomStrings :
         calls' = Append(calls,
            [op |-> "findOrCreateUser", userid |-> userid, arg |-> password,
             password |-> IF password = "" THEN random ELSE password,
             pc |-> "hashPassword", hash |-> JsUndefined,
             failed |-> NoFailure, issued |-> <<"hash">>,
             out |-> "pending", value |-> JsUndefined, prior |-> SettledCalls])
    /\ UNCHANGED <<Users, Hunts, nextId>>

\* bcrypt.hash calls back: on success the upsert is issued, on error the
\* .fail handler rejects
hashPassword(i) ==
    /\ calls[i].op = "findOrCreateUser" /\ calls[i].pc = "hashPassword"
    /\ \/ \E salt \in Salts :
            calls' = [calls EXCEPT ![i].pc = "findAndModify",
                                   ![i].hash = Bcrypt(calls[i].password, salt),
                                   ![i].issued = Append(@, "findAndModify")]
       \/ Fail(i, HashFailure, Rejected(HashFailure))
    /\ UNCHANGED <<Users, Hunts, nextId>>

\* the engine performs the upsert and monk fires .success(doc), or .error
findAndModify(i) ==
    /\ calls[i].op = "findOrCreateUser" /\ calls[i].pc = "findAndModify"
    /\ \/ LET r == FindAndModifyUser(Users, calls[i].userid, calls[i].hash)
          IN /\ Users' = r.users
             /\ Settle(i, Resolved(r.reply))
       \/ /\ Fail(i, StoreFailure, Rejected(StoreFailure))
          /\ UNCHANGED Users
    /\ UNCHANGED <<Hunts, nextId>>

-----------------------------------------------------------------------------
(* validateUser *)

validateUser(limit, username, password) ==
    /\ Len(calls) < limit
    /\ calls' = Append(calls,
          [op |-> "validateUser", userid |-> username, password |-> password,
           pc |-> "findOne", doc |-> JsUndefined, secret |-> JsUndefined,
           failed |-> NoFailure, issued |-> <<"findOne">>,
           out |-> "pending", value |-> JsUndefined, prior |-> SettledCalls])
    /\ UNCHANGED <<Users, Hunts, nextId>>

\* (mutant) the branches of the conditional swapped for an existing user
ChooseSecretSwapped(doc) ==
    IF doc = JsNull THEN dummySecret
    ELSE IF doc.doc.secret = JsUndefined THEN doc.doc.secret
    ELSE dummySecret

\* var secret = !doc || !doc.secret ? dummySecret : doc.secret
ChooseSecret(doc) ==
    IF doc = JsNull THEN dummySecret
    ELSE IF doc.doc.secret = JsUndefined THEN dummySecret
    ELSE doc.doc.secret

\* (mutant) the lookup done with an upsert, which creates the missing user
findOneUserUpserts(i) ==
    /\ calls[i].op = "validateUser" /\ calls[i].pc = "findOne"
    /\ LET r == FindAndModifyUser(Users, calls[i].userid, dummySecret)
       IN /\ Users' = r.users
          /\ calls' = [calls EXCEPT ![i].pc = "validatePassword",
                                    ![i].doc = r.reply,
                                    ![i].secret = ChooseSecret(r.reply),
                                    ![i].issued = Append(@, "compare")]
    /\ UNCHANGED <<Hunts, nextId>>

\* (mutant) an early exit for an unknown user: the negative result is built
\* at once, and bcrypt.compare runs for existing users only
findOneUserEarlyExit(i) ==
    /\ calls[i].op = "validateUser" /\ calls[i].pc = "findOne"
    /\ \/ LET doc == FindOneUser(Users, calls[i].userid)
          IN calls' = [calls EXCEPT ![i] =
                IF doc = JsNull
                THEN [@ EXCEPT !.doc = doc, !.pc = "done", !.out = "resolved",
                        !.value = JsDoc([id |-> JsNull,
                                message |-> "Incorrect user name or password"])]
                ELSE [@ EXCEPT !.pc = "validatePassword", !.doc = doc,
                        !.secret = ChooseSecret(doc),
                        !.issued = Append(@, "compare")]]
       \/ Fail(i, StoreFailure, Rejected(StoreFailure))
    /\ UNCHANGED <<Users, Hunts, nextId>>

\* the lookup answers: .success(doc) starts the comparison, .error rejects
findOneUser(i) ==
    /\ calls[i].op = "validateUser" /\ calls[i].pc = "findOne"
    /\ \/ LET doc == FindOneUser(Users, calls[i].userid)
          IN calls' = [calls EXCEPT ![i].pc = "validatePassword",
                                    ![i].doc = doc,
                                    ![i].secret = ChooseSecret(doc),
                                    ![i].issued = Append(@, "compare")]
       \/ Fail(i, StoreFailure, Rejected(StoreFailure))
    /\ UNCHANGED <<Users, Hunts, nextId>>

\* (mutant) the result decided by the comparison alone, without `!doc`
ValidateResultMatchOnly(doc, isMatch) ==
    IF ~isMatch
    THEN [id |-> JsNull, message |-> "Incorrect user name or password"]
    ELSE [id |-> IF doc = JsNull THEN JsUndefined ELSE JsString(doc.doc.userid),
          message |-> "success"]

\* the result validateUser builds from the document and the comparison
ValidateResult(doc, isMatch) ==
    IF doc = JsNull \/ ~isMatch
    THEN [id |-> JsNull, message |-> "Incorrect user name or password"]
    ELSE [id |-> JsString(doc.doc.userid), message |-> "success"]

\* (mutant) the comparison always made against the decoy
validatePasswordDecoy(i) ==
    /\ calls[i].op = "validateUser" /\ calls[i].pc = "validatePassword"
    /\ \/ Settle(i, Resolved(JsDoc(ValidateResult(calls[i].doc,
                        BcryptCompare(calls[i].password, dummySecret)))))
       \/ Fail(i, HashFailure, Rejected(HashFailure))
    /\ UNCHANGED <<Users, Hunts, nextId>>

\* bcrypt.compare calls back with isMatch, or with an error
validatePassword(i) ==
    /\ calls[i].op = "validateUser" /\ calls[i].pc = "validatePassword"
    /\ \/ Settle(i, Resolved(JsDoc(ValidateResult(calls[i].doc,
                        BcryptCompare(calls[i].password, calls[i].secret)))))
       \/ Fail(i, HashFailure, Rejected(HashFailure))
    /\ UNCHANGED <<Users, Hunts, nextId>>

-----------------------------------------------------------------------------
(* Identifiers: the driver's ObjectID and monk's cast of a query's _id *)

\* an ObjectID is twelve bytes, written as 24 lower-case hex characters
ObjectID(hex) == [type |-> "ObjectID", hex |-> hex]

HexDigits == <<"1", "2", "3", "4", "5", "6", "7", "8", "9", "a", "b", "c", "d", "e", "f">>
OidPrefix == "55d2f0c1a4b3c2d1e0f0000"

\* the n-th identifier hunts.id() generates: never the all-zero one
GeneratedHex(n) == OidPrefix \o HexDigits[n]

ZeroId == "000000000000000000000000"
UnknownHex == "55d2f0c1a4b3c2d1e0ffffff"
TwelveBytes == "abcdefghijkl"
TwelveBytesHex == "6162636465666768696a6b6c"
ShortId == "not-a-valid-id"
NonHex24 == "not-a-valid-id-but-24-ch"

\* the strings of the model that consist of 24 hex characters
HexStrings == {GeneratedHex(n) : n \in 1..15} \cup {ZeroId, UnknownHex, TwelveBytesHex}

\* ObjectID.toString()
toString(oid) == oid.hex

\* monk's cast of {_id: s}: the outcomes the driver can produce for string s.
\* 24 hex characters convert.  A string of any other length than 12 or 24 is
\* refused by the driver (the refusal the length test of getHuntById guards
\* against).  The source does not fix the driver for the two remaining cases:
\* 24 characters that are not hex are refused by a driver that tests the
\* characters and converted to the identifier of no document by one that
\* does not; 12 characters are taken as the 12 raw bytes by a driver that
\* accepts bytes and refused by one that only reads hex.
CastId(s) ==
    IF s \in HexStrings THEN {[ok |-> TRUE, id |-> ObjectID(s)]}
    ELSE IF Len(s) = 12 THEN {[ok |-> FALSE], [ok |-> TRUE, id |-> ObjectID(TwelveBytesHex)]}
    ELSE IF Len(s) = 24 THEN {[ok |-> FALSE], [ok |-> TRUE, id |-> ObjectID(s)]}
    ELSE {[ok |-> FALSE]}

CastFailure == "Argument passed in must be a single String of 12 bytes or a string of 24 hex characters"

-----------------------------------------------------------------------------
(* Server configuration (./serverConfig) *)

playSubdomain == "play"
domain == "pathhero.com"

-----------------------------------------------------------------------------
(* The monk promise adapter *)

\* (mutant) the key ignored: the whole item is the result
resolveMonkPromiseNoKey(reply, key) ==
    IF reply.ok THEN Resolved(reply.item) ELSE Rejected(reply.error)

\* (mutant) the error handler resolves with null in place of rejecting
resolveMonkPromiseSwallows(reply, key) ==
    IF reply.ok
    THEN IF key # "" THEN Resolved(reply.item.doc[key]) ELSE Resolved(reply.item)
    ELSE Resolved(JsNull)

\* resolveMonkPromise(monkPromise, key): key "" stands for the omitted key
resolveMonkPromise(reply, key) ==
    IF reply.ok
    THEN IF key # "" THEN Resolved(reply.item.doc[key]) ELSE Resolved(reply.item)
    ELSE Rejected(reply.error)

-----------------------------------------------------------------------------
(* Hunts collection *)

HuntIndexes(hunts, id) == {k \in 1..Len(hunts) : hunts[k]._id = id}

\* insert(doc): the engine refuses a second document with the same _id
InsertHunt(hunts, doc) ==
    IF HuntIndexes(hunts, doc._id) # {}
    THEN [reply |-> MonkError(StoreFailure), hunts |-> hunts]
    ELSE [reply |-> MonkSuccess(JsDoc(doc)), hunts |-> Append(hunts, doc)]

\* update({_id: id}, doc): whole-document replacement of the first match, no
\* upsert; the reply is the number of documents updated
UpdateHunt(hunts, id, doc) ==
    IF HuntIndexes(hunts, id) = {}
    THEN [reply |-> MonkSuccess(JsNumber(0)), hunts |-> hunts]
    ELSE [reply |-> MonkSuccess(JsNumber(1)),
          hunts |-> [hunts EXCEPT ![Min(HuntIndexes(hunts, id))] = doc]]

\* remove({_id: id}): the reply is the number of documents removed
RemoveHunt(hunts, id) ==
    LET keep(h) == h._id # id
    IN [reply |-> MonkSuccess(JsNumber(Cardinality(HuntIndexes(hunts, id)))),
        hunts |-> SelectSeq(hunts, keep)]

\* findOne({_id: id})
FindOneHunt(hunts, id) ==
    IF HuntIndexes(hunts, id) = {} THEN MonkSuccess(JsNull)
    ELSE MonkSuccess(JsDoc(hunts[Min(HuntIndexes(hunts, id))]))

\* (mutant) find({}): the query without its creatorId condition
FindUserHuntsUnfiltered(hunts, userid) == MonkSuccess(JsArray(hunts))

\* find({creatorId: userid})
FindUserHunts(hunts, userid) ==
    LET mine(h) == h.creatorId = userid
    IN MonkSuccess(JsArray(SelectSeq(hunts, mine)))

\* find({})
FindAllHunts(hunts) == MonkSuccess(JsArray(hunts))

-----------------------------------------------------------------------------
(* Hunt inputs *)

\* the url addHunt builds for an identifier
HuntUrl(id) == "http://" \o playSubdomain \o "." \o domain \o "/" \o toString(id)

\* hunts a caller passes to addHunt: the second carries an _id and a url of
\* its own
NewHunts ==
    {[_id |-> JsUndefined, url |-> JsUndefined,
      creatorId |-> "alice", huntName |-> "Park Quest", pins |-> <<"fountain">>],
     [_id |-> ObjectID(GeneratedHex(1)), url |-> JsString("http://elsewhere.example/1"),
      creatorId |-> "bob", huntName |-> "Pier Run", pins |-> <<>>]}

\* the identifiers a caller passes to updateHunt (as 24 hex characters)
UpdateIds == {GeneratedHex(1), UnknownHex}

\* the url field of a hunt passed to updateHunt: absent, the stored one, another
UpdateUrls(hex) ==
    {JsUndefined, JsString(HuntUrl(ObjectID(hex))), JsString("http://elsewhere.example/1")}

UpdatedHunts ==
    UNION {{[_id |-> hex, url |-> u,
             creatorId |-> "alice", huntName |-> "Renamed", pins |-> <<"gate">>] :
                u \in UpdateUrls(hex)} : hex \in UpdateIds}

\* the identifiers a caller passes to getHuntById and removeHuntbyId
HuntIds == {GeneratedHex(1), ZeroId, ShortId, NonHex24, TwelveBytes}

Creators == {"alice", "bob"}

-----------------------------------------------------------------------------
(* Hunt operations *)

\* a call: arg is the caller's argument, sent is what goes to the engine
NewCall(op, arg, sent, pc) ==
    [op |-> op, arg |-> arg, sent |-> sent, pc |-> pc,
     failed |-> NoFailure, issued |-> <<pc>>,
     out |-> "pending", value |-> JsUndefined, prior |-> SettledCalls]

\* a call that throws before it returns a promise
Thrown(op, arg, e) ==
    [op |-> op, arg |-> arg, sent |-> JsUndefined, pc |-> "done",
     failed |-> NoFailure, issued |-> <<>>,
     out |-> "thrown", value |-> JsError(e), prior |-> SettledCalls]

\* (mutant) hunt._id = hunt._id || hunts.id(): an _id the caller sent is kept
addHuntKeepsId(limit, hunt) ==
    /\ Len(calls) < limit
    /\ nextId < 15
    /\ LET id == IF hunt._id = JsUndefined THEN ObjectID(GeneratedHex(nextId + 1))
                 ELSE hunt._id
           doc == [hunt EXCEPT !._id = id, !.url = JsString(HuntUrl(id))]
       IN calls' = Append(calls, NewCall("addHunt", hunt, doc, "insert"))
    /\ nextId' = nextId + 1
    /\ UNCHANGED <<Users, Hunts>>

\* addHunt: the identifier and the url are set on the hunt, the insert is issued
addHunt(limit, hunt) ==
    /\ Len(calls) < limit
    /\ nextId < 15
    /\ LET id == ObjectID(GeneratedHex(nextId + 1))
           doc == [hunt EXCEPT !._id = id, !.url = JsString(HuntUrl(id))]
       IN calls' = Append(calls, NewCall("addHunt", hunt, doc, "insert"))
    /\ nextId' = nextId + 1
    /\ UNCHANGED <<Users, Hunts>>

insert(i) ==
    /\ calls[i].op = "addHunt" /\ calls[i].pc = "insert"
    /\ \/ LET r == InsertHunt(Hunts, calls[i].sent)
          IN /\ Hunts' = r.hunts
             /\ IF r.reply.ok THEN Settle(i, resolveMonkPromise(r.reply, "url"))
                ELSE Fail(i, r.reply.error, resolveMonkPromise(r.reply, "url"))
       \/ /\ Fail(i, StoreFailure, resolveMonkPromise(MonkError(StoreFailure), "url"))
          /\ UNCHANGED Hunts
    /\ UNCHANGED <<Users, nextId>>

\* updateHunt: monk casts the _id of the query and of the replacement
updateHunt(limit, hunt) ==
    /\ Len(calls) < limit
    /\ \E c \in CastId(hunt._id) :
         calls' = Append(calls,
            IF c.ok THEN NewCall("updateHunt", hunt, [hunt EXCEPT !._id = c.id], "update")
            ELSE Thrown("updateHunt", hunt, CastFailure))
    /\ UNCHANGED <<Users, Hunts, nextId>>

update(i) ==
    /\ calls[i].op = "updateHunt" /\ calls[i].pc = "update"
    /\ \/ LET r == UpdateHunt(Hunts, calls[i].sent._id, calls[i].sent)
          IN /\ Hunts' = r.hunts
             /\ Settle(i, resolveMonkPromise(r.reply, ""))
       \/ /\ Fail(i, StoreFailure, resolveMonkPromise(MonkError(StoreFailure), ""))
          /\ UNCHANGED Hunts
    /\ UNCHANGED <<Users, nextId>>

getUserHunts(limit, userid) ==
    /\ Len(calls) < limit
    /\ calls' = Append(calls, NewCall("getUserHunts", userid, userid, "find"))
    /\ UNCHANGED <<Users, Hunts, nextId>>

find(i) ==
    /\ calls[i].op = "getUserHunts" /\ calls[i].pc = "find"
    /\ \/ Settle(i, resolveMonkPromise(FindUserHunts(Hunts, calls[i].sent), ""))
       \/ Fail(i, StoreFailure, resolveMonkPromise(MonkError(StoreFailure), ""))
    /\ UNCHANGED <<Users, Hunts, nextId>>

\* (mutant) || in place of && in the length test: every id is replaced
CheckedIdEither(huntid) ==
    IF Len(huntid) # 12 \/ Len(huntid) # 24 THEN ZeroId ELSE huntid

\* if (huntid.length !== 12 && huntid.length !== 24) huntid = '000000000000000000000000'
CheckedId(huntid) ==
    IF Len(huntid) # 12 /\ Len(huntid) # 24 THEN ZeroId ELSE huntid

removeHuntbyId(limit, huntid) ==
    /\ Len(calls) < limit
    /\ \E c \in CastId(CheckedId(huntid)) :
         calls' = Append(calls,
            IF c.ok THEN NewCall("removeHuntbyId", huntid, c.id, "remove")
            ELSE Thrown("removeHuntbyId", huntid, CastFailure))
    /\ UNCHANGED <<Users, Hunts, nextId>>

remove(i) ==
    /\ calls[i].op = "removeHuntbyId" /\ calls[i].pc = "remove"
    /\ \/ LET r == RemoveHunt(Hunts, calls[i].sent)
          IN /\ Hunts' = r.hunts
             /\ Settle(i, resolveMonkPromise(r.reply, ""))
       \/ /\ Fail(i, StoreFailure, resolveMonkPromise(MonkError(StoreFailure), ""))
          /\ UNCHANGED Hunts
    /\ UNCHANGED <<Users, nextId>>

getHuntById(limit, huntid) ==
    /\ Len(calls) < limit
    /\ \E c \in CastId(CheckedId(huntid)) :
         calls' = Append(calls,
            IF c.ok THEN NewCall("getHuntById", huntid, c.id, "findOne")
            ELSE Thrown("getHuntById", huntid, CastFailure))
    /\ UNCHANGED <<Users, Hunts, nextId>>

findOneHunt(i) ==
    /\ calls[i].op = "getHuntById" /\ calls[i].pc = "findOne"
    /\ \/ Settle(i, resolveMonkPromise(FindOneHunt(Hunts, calls[i].sent), ""))
       \/ Fail(i, StoreFailure, resolveMonkPromise(MonkError(StoreFailure), ""))
    /\ UNCHANGED <<Users, Hunts, nextId>>

getAllHunts(limit) ==
    /\ Len(calls) < limit
    /\ calls' = Append(calls, NewCall("getAllHunts", JsUndefined, JsUndefined, "findAll"))
    /\ UNCHANGED <<Users, Hunts, nextId>>

findAll(i) ==
    /\ calls[i].op = "getAllHunts" /\ calls[i].pc = "findAll"
    /\ \/ Settle(i, resolveMonkPromise(FindAllHunts(Hunts), ""))
       \/ Fail(i, StoreFailure, resolveMonkPromise(MonkError(StoreFailure), ""))
    /\ UNCHANGED <<Users, Hunts, nextId>>

-----------------------------------------------------------------------------
(* Specifications *)

Init ==
    /\ Users = <<>>
    /\ Hunts = <<>>
    /\ calls = <<>>
    /\ nextId = 0

NextUsers ==
    \/ \E u \in UserIds, p \in Passwords : findOrCreateUser(MaxUserCalls, u, p)
    \/ \E u \in UserIds, p \in ValidatePasswords : validateUser(MaxUserCalls, u, p)
    \/ \E i \in 1..Len(calls) : hashPassword(i)
    \/ \E i \in 1..Len(calls) : findAndModify(i)
    \/ \E i \in 1..Len(calls) : findOneUser(i)
    \/ \E i \in 1..Len(calls) : validatePassword(i)
    \/ \E h \in NewHunts : addHunt(MaxUserCalls, h)
    \/ \E i \in 1..Len(calls) : insert(i)

\* the user store, beside callers that create hunts
SpecUsers == Init /\ [][NextUsers]_vars

NextHunts ==
    \/ \E h \in NewHunts : addHunt(MaxHuntCalls, h)
    \/ \E h \in UpdatedHunts : updateHunt(MaxHuntCalls, h)
    \/ \E u \in Creators : getUserHunts(MaxHuntCalls, u)
    \/ \E id \in HuntIds : removeHuntbyId(MaxHuntCalls, id)
    \/ \E id \in HuntIds : getHuntById(MaxHuntCalls, id)
    \/ getAllHunts(MaxHuntCalls)
    \/ \E i \in 1..Len(calls) : insert(i)
    \/ \E i \in 1..Len(calls) : update(i)
    \/ \E i \in 1..Len(calls) : find(i)
    \/ \E i \in 1..Len(calls) : remove(i)
    \/ \E i \in 1..Len(calls) : findOneHunt(i)
    \/ \E i \in 1..Len(calls) : findAll(i)

SpecHunts == Init /\ [][NextHunts]_vars

\* the invocations of the eight exported functions
Invoke ==
    \/ \E u \in UserIds, p \in Passwords : findOrCreateUser(MaxCalls, u, p)
    \/ \E u \in UserIds, p \in ValidatePasswords : validateUser(MaxCalls, u, p)
    \/ \E h \in NewHunts : addHunt(MaxCalls, h)
    \/ \E h \in UpdatedHunts : updateHunt(MaxCalls, h)
    \/ \E u \in Creators : getUserHunts(MaxCalls, u)
    \/ \E id \in HuntIds : removeHuntbyId(MaxCalls, id)
    \/ \E id \in HuntIds : getHuntById(MaxCalls, id)
    \/ getAllHunts(MaxCalls)

\* the storage engine or the hasher answers the call that invocation i has
\* outstanding, with success or with an error
Answer(i) ==
    \/ hashPassword(i)
    \/ findAndModify(i)
    \/ findOneUser(i)
    \/ validatePassword(i)
    \/ insert(i)
    \/ update(i)
    \/ find(i)
    \/ remove(i)
    \/ findOneHunt(i)
    \/ findAll(i)

Next ==
    \/ Invoke
    \/ \E i \in 1..Len(calls) : Answer(i)

\* all eight operations on one store
Spec == Init /\ [][Next]_vars

\* Spec where every storage and hash call that is outstanding is eventually
\* answered, with success or with an error; nothing obliges a caller to invoke
FairSpec ==
    Spec /\ \A i \in 1..MaxCalls : WF_vars(i <= Len(calls) /\ Answer(i))

-----------------------------------------------------------------------------
(* Properties of the user store, checked under SpecUsers *)

IsFindOrCreate(i) == calls[i].op = "findOrCreateUser"
IsValidate(i) == calls[i].op = "validateUser"
CallIds == 1..Len(calls)

\* the stored record of userid (there is one)
StoredUser(userid) == Users[Min(UserIndexes(Users, userid))]

\* C1: in every reachable state there is at most one User record per
\* userid, however many findOrCreateUser calls run on the same userid and
\* however their hashing and upsert steps interleave.
C1_OneUserPerUserid ==
    \A u \in UserIds : Cardinality(UserIndexes(Users, u)) <= 1

\* two findOrCreateUser calls on one userid, the second invoked while the
\* first was in flight, have both completed
C1_Witness ==
    \E i, j \in CallIds :
        /\ i < j /\ IsFindOrCreate(i) /\ IsFindOrCreate(j)
        /\ calls[i].userid = calls[j].userid
        /\ i \notin calls[j].prior
        /\ calls[i].out = "resolved" /\ calls[j].out = "resolved"

\* C2: findOrCreateUser leaves an existing record alone.  A call that found
\* a record leaves that very record stored; and when the call that created
\* the record with pw1 has completed and a later call with pw2 # pw1 has
\* completed too, there is exactly one record for the userid, whose hash
\* validates against pw1 and not against pw2.
C2_IdempotentFindOrCreate ==
    /\ \A j \in CallIds :
         (IsFindOrCreate(j) /\ calls[j].out = "resolved" /\ calls[j].value # JsNull)
            => /\ Cardinality(UserIndexes(Users, calls[j].userid)) = 1
               /\ JsDoc(StoredUser(calls[j].userid)) = calls[j].value
    /\ \A i, j \in CallIds :
         (/\ IsFindOrCreate(i) /\ IsFindOrCreate(j)
          /\ calls[i].userid = calls[j].userid
          /\ calls[i].out = "resolved" /\ calls[i].value = JsNull
          /\ i \in calls[j].prior /\ calls[j].out = "resolved"
          /\ calls[i].password # calls[j].password)
            => /\ Cardinality(UserIndexes(Users, calls[i].userid)) = 1
               /\ BcryptCompare(calls[i].password, StoredUser(calls[i].userid).secret)
               /\ ~BcryptCompare(calls[j].password, StoredUser(calls[i].userid).secret)

\* findOrCreateUser(u, pw1) created the record and completed, then
\* findOrCreateUser(u, pw2) was invoked and completed
C2_Witness ==
    \E i, j \in CallIds :
        /\ IsFindOrCreate(i) /\ IsFindOrCreate(j)
        /\ calls[i].userid = calls[j].userid
        /\ calls[i].arg = "pw1" /\ calls[j].arg = "pw2"
        /\ calls[i].out = "resolved" /\ calls[i].value = JsNull
        /\ i \in calls[j].prior /\ calls[j].out = "resolved"

\* C3: a successful findOrCreateUser(userid, password) resolves to the
\* userid it was given, whether it inserted the User or found it.
C3_ResolvesToUserid ==
    \A i \in CallIds :
        (IsFindOrCreate(i) /\ calls[i].out = "resolved")
            => calls[i].value = JsString(calls[i].userid)

\* C4: round trip.  When findOrCreateUser(userid, p), p non-empty, found no
\* User for userid and completed, a validateUser(userid, p) invoked
\* afterwards whose lookup and comparison do not fail resolves to
\* {id: userid, message: "success"}.
C4_RoundTripAuth ==
    \A i, j \in CallIds :
        (/\ IsFindOrCreate(i) /\ calls[i].arg # ""
         /\ calls[i].out = "resolved" /\ calls[i].value = JsNull
         /\ IsValidate(j) /\ i \in calls[j].prior
         /\ calls[j].userid = calls[i].userid
         /\ calls[j].password = calls[i].arg
         /\ Settled(calls[j]) /\ calls[j].out # "rejected")
            => /\ calls[j].out = "resolved"
               /\ calls[j].value =
                     JsDoc([id |-> JsString(calls[i].userid), message |-> "success"])

C4_Witness ==
    \E i, j \in CallIds :
        /\ IsFindOrCreate(i) /\ calls[i].arg = "pw1"
        /\ calls[i].out = "resolved" /\ calls[i].value = JsNull
        /\ IsValidate(j) /\ i \in calls[j].prior
        /\ calls[j].userid = calls[i].userid
        /\ calls[j].password = "pw1"
        /\ calls[j].out = "resolved"

Incorrect == [id |-> JsNull, message |-> "Incorrect user name or password"]

\* C5: a validateUser whose lookup found no User, and one whose lookup found
\* a User whose secret the password does not match, both resolve (they are
\* not rejected) to {id: null, message: "Incorrect user name or password"}.
C5_SameNegativeResult ==
    \A j \in CallIds :
        (/\ IsValidate(j) /\ Settled(calls[j]) /\ calls[j].doc # JsUndefined
         /\ calls[j].value # JsError(HashFailure)
         /\ \/ calls[j].doc = JsNull
            \/ ~BcryptCompare(calls[j].password, calls[j].doc.doc.secret))
            => /\ calls[j].out = "resolved"
               /\ calls[j].value = JsDoc(Incorrect)

\* an existing user was validated with a password that is not theirs
C5_Witness ==
    \E i, j \in CallIds :
        /\ IsFindOrCreate(i) /\ calls[i].arg = "pw2" /\ calls[i].out = "resolved"
        /\ IsValidate(j) /\ calls[j].userid = calls[i].userid
        /\ calls[j].password = "pw1"
        /\ calls[j].doc # JsNull /\ calls[j].doc # JsUndefined
        /\ calls[j].out = "resolved"

\* a step of call i of validateUser: its invocation or one of its callbacks
ValidateStep(i) ==
    /\ calls'[i].op = "validateUser"
    /\ \/ i > Len(calls)
       \/ calls'[i] # calls[i]

\* C6: validateUser never mutates storage: no step of a validateUser call,
\* whatever its outcome, changes the Users or the Hunts collection.
C6_ValidateLeavesStorage ==
    [][\A i \in 1..Len(calls') :
          ValidateStep(i) => (Users' = Users /\ Hunts' = Hunts)]_vars

\* validateUser has settled in a store that holds a User
C6_Witness ==
    \E j \in CallIds : IsValidate(j) /\ Settled(calls[j]) /\ Users # <<>>

\* how many times invocation i has issued the call named name
Issued(i, name) ==
    Cardinality({n \in 1..Len(calls[i].issued) : calls[i].issued[n] = name})

\* C15: in validateUser, from the moment the lookup has answered without
\* failure exactly one password comparison has been issued, whether the
\* lookup found a User or not: against the stored secret of the User found,
\* against the fixed decoy when none was found (or the one found has no
\* secret).  None is issued before the lookup answers, and a validateUser
\* that has resolved has had its lookup answered and its comparison made.
C15_OneVerification ==
    \A j \in CallIds :
        IsValidate(j)
            => /\ calls[j].doc = JsUndefined => Issued(j, "compare") = 0
               /\ calls[j].doc # JsUndefined
                    => /\ Issued(j, "compare") = 1
                       /\ calls[j].secret =
                            IF calls[j].doc # JsNull
                                  /\ calls[j].doc.doc.secret # JsUndefined
                            THEN calls[j].doc.doc.secret
                            ELSE dummySecret
               /\ calls[j].out = "resolved"
                    => calls[j].doc # JsUndefined /\ Issued(j, "compare") = 1

\* a validateUser of a userid without User has resolved after its one
\* comparison, made against the decoy
C15_Witness ==
    \E j \in CallIds :
        /\ IsValidate(j) /\ calls[j].out = "resolved"
        /\ calls[j].doc = JsNull
        /\ calls[j].secret = dummySecret
        /\ calls[j].issued = <<"findOne", "compare">>

\* C17: when findOrCreateUser, called with the password omitted or empty,
\* found no User and created one, the stored secret is the hash of the
\* generated placeholder and does not validate the empty string; a
\* validateUser(userid, "") invoked after it completed, if it resolves,
\* resolves to {id: null, message: "Incorrect user name or password"}.
C17_PlaceholderPassword ==
    \A i \in CallIds :
        (/\ IsFindOrCreate(i) /\ calls[i].arg = ""
         /\ calls[i].out = "resolved" /\ calls[i].value = JsNull)
            => /\ UserIndexes(Users, calls[i].userid) # {}
               /\ calls[i].password \in RandomStrings
               /\ BcryptCompare(calls[i].password, StoredUser(calls[i].userid).secret)
               /\ ~BcryptCompare("", StoredUser(calls[i].userid).secret)
               /\ \A j \in CallIds :
                     (/\ IsValidate(j) /\ i \in calls[j].prior
                      /\ calls[j].userid = calls[i].userid
                      /\ calls[j].password = ""
                      /\ calls[j].out = "resolved")
                        => calls[j].value = JsDoc(Incorrect)

\* findOrCreateUser(u) without password created the User and completed,
\* then validateUser(u, "") was invoked, found the User and resolved
C17_Witness ==
    \E i, j \in CallIds :
        /\ IsFindOrCreate(i) /\ calls[i].arg = ""
        /\ calls[i].out = "resolved" /\ calls[i].value = JsNull
        /\ IsValidate(j) /\ i \in calls[j].prior
        /\ calls[j].userid = calls[i].userid
        /\ calls[j].password = ""
        /\ calls[j].doc # JsNull
        /\ calls[j].out = "resolved"

-----------------------------------------------------------------------------
(* Properties of the hunt store, checked under SpecHunts *)

\* not exactly 12 raw bytes and not exactly 24 hex characters
Malformed(huntid) == Len(huntid) # 12 /\ huntid \notin HexStrings

\* C7: for every malformed id, getHuntById(id) and removeHuntbyId(id)
\* remove no hunt and, unless the engine itself fails the call, resolve to
\* null.
C7_MalformedIdIsSafe ==
    [][\A i \in 1..Len(calls') :
          (/\ calls'[i].op \in {"getHuntById", "removeHuntbyId"}
           /\ Malformed(calls'[i].arg)
           /\ \/ i > Len(calls)
              \/ calls'[i] # calls[i])
             => /\ Hunts' = Hunts
                /\ (Settled(calls'[i]) /\ calls'[i].value # JsError(StoreFailure))
                      => (calls'[i].out = "resolved" /\ calls'[i].value = JsNull)]_vars

\* C8: a successful addHunt resolves to http://<playSubdomain>.<domain>/<id>,
\* and the hunt that call persisted has that <id> as _id and the returned
\* url as url.
C8_UrlDerivation ==
    [][\A i \in 1..Len(calls) :
          (calls[i].op = "addHunt" /\ calls[i].out = "pending"
                /\ calls'[i].out = "resolved")
             => /\ Len(Hunts') = Len(Hunts) + 1
                /\ LET stored == Hunts'[Len(Hunts')]
                   IN /\ calls'[i].value =
                            JsString("http://" \o playSubdomain \o "." \o domain
                                        \o "/" \o stored._id.hex)
                      /\ stored.url = calls'[i].value
                      /\ stored._id.type = "ObjectID"
                      /\ stored.huntName = calls[i].arg.huntName]_vars

C8_Witness ==
    \E i \in CallIds :
        /\ calls[i].op = "addHunt" /\ calls[i].out = "resolved"
        /\ \E k \in 1..Len(Hunts) : JsString(Hunts[k].url.s) = calls[i].value

\* C9: in every reachable state each stored hunt's url is the URL template
\* applied to that hunt's _id.
C9_UrlFollowsId ==
    \A k \in 1..Len(Hunts) :
        Hunts[k].url = JsString("http://" \o playSubdomain \o "." \o domain
                                    \o "/" \o Hunts[k]._id.hex)

\* C10: an updateHunt that the engine answers resolves to null and leaves
\* the Hunts collection as it was when no stored hunt has the _id, and
\* resolves to the updated document, carrying the argument's fields, when
\* one has.
C10_UpdateResult ==
    [][\A i \in 1..Len(calls) :
          (calls[i].op = "updateHunt" /\ calls[i].out = "pending"
                /\ calls'[i].out = "resolved")
             => IF HuntIndexes(Hunts, calls[i].sent._id) = {}
                THEN calls'[i].value = JsNull /\ Hunts' = Hunts
                ELSE /\ calls'[i].value.type = "object"
                     /\ calls'[i].value.doc.huntName = calls[i].arg.huntName
                     /\ calls'[i].value.doc.creatorId = calls[i].arg.creatorId
                     /\ calls'[i].value.doc.pins = calls[i].arg.pins]_vars

\* the _ids of the stored hunts
StoredIds == {Hunts[k]._id : k \in 1..Len(Hunts)}

\* C11: the store assigns the id at addHunt.  The _id addHunt sends to the
\* engine is the identifier generated for that call, whatever _id the
\* argument carried: no other addHunt got it, and until the insert is made
\* no stored hunt has it.  So no two stored hunts ever share an _id.
C11_IdAssignedByStore ==
    /\ \A i \in CallIds :
         calls[i].op = "addHunt"
            => /\ calls[i].sent._id.type = "ObjectID"
               /\ \A j \in CallIds :
                     (j # i /\ calls[j].op = "addHunt")
                        => calls[j].sent._id # calls[i].sent._id
               /\ calls[i].out = "pending" => calls[i].sent._id \notin StoredIds
    /\ \A k, l \in 1..Len(Hunts) : Hunts[k]._id = Hunts[l]._id => k = l

\* a hunt that carried the _id of a stored hunt has been added beside it
C11_Witness ==
    \E i \in CallIds :
        /\ calls[i].op = "addHunt" /\ calls[i].out = "resolved"
        /\ calls[i].arg._id \in StoredIds
        /\ calls[i].sent._id \in StoredIds
        /\ calls[i].sent._id # calls[i].arg._id
        /\ Len(Hunts) = 2

\* C12: a getUserHunts(userid) that the engine answers resolves to the
\* stored hunts whose creatorId is userid, each of them once and no other
\* hunt; when the user has none it resolves to the empty array.
C12_UserHuntsExact ==
    [][\A i \in 1..Len(calls) :
          (/\ calls[i].op = "getUserHunts" /\ calls[i].out = "pending"
           /\ Settled(calls'[i]) /\ calls'[i].failed = NoFailure)
             => LET own == {k \in 1..Len(Hunts) : Hunts[k].creatorId = calls[i].arg}
                    items == calls'[i].value.items
                IN /\ calls'[i].out = "resolved"
                   /\ calls'[i].value.type = "array"
                   /\ Len(items) = Cardinality(own)
                   /\ {items[n] : n \in 1..Len(items)} = {Hunts[k] : k \in own}
                   /\ own = {} => calls'[i].value = JsArray(<<>>)]_vars

\* getUserHunts has resolved to the empty array for a user without hunts
\* while the store held a hunt of another user
C12_Witness ==
    \E i \in CallIds :
        /\ calls[i].op = "getUserHunts" /\ calls[i].out = "resolved"
        /\ calls[i].value = JsArray(<<>>)
        /\ \E k \in 1..Len(Hunts) : Hunts[k].creatorId # calls[i].arg

\* C13: a removeHuntbyId(id) with a well-formed id that the engine answers
\* removes the stored hunt with that _id and resolves to the removed
\* document, or resolves to null when no stored hunt has the _id; every
\* other stored hunt is unchanged and no stored hunt has the _id afterwards.
C13_RemoveReturnsDocument ==
    [][\A i \in 1..Len(calls) :
          (/\ calls[i].op = "removeHuntbyId" /\ ~Malformed(calls[i].arg)
           /\ calls[i].out = "pending"
           /\ Settled(calls'[i]) /\ calls'[i].failed = NoFailure)
             => LET hit == HuntIndexes(Hunts, calls[i].sent)
                    others(h) == h._id # calls[i].sent
                IN /\ calls'[i].out = "resolved"
                   /\ calls'[i].value = IF hit = {} THEN JsNull
                                         ELSE JsDoc(Hunts[Min(hit)])
                   /\ Hunts' = SelectSeq(Hunts, others)
                   /\ HuntIndexes(Hunts', calls[i].sent) = {}]_vars

\* an updateHunt or a removeHuntbyId aimed at the hunt with this _id has
\* been carried out
Touched(id) ==
    \E k \in CallIds :
        /\ calls[k].out = "resolved"
        /\ \/ calls[k].op = "updateHunt" /\ calls[k].sent._id = id
           \/ calls[k].op = "removeHuntbyId" /\ calls[k].sent = id

\* C19: add/get round trip.  When addHunt(hunt) has resolved to a url, a
\* getHuntById invoked afterwards with the identifier that ends the url, and
\* answered while no updateHunt or removeHuntbyId of that hunt has been
\* carried out, resolves to the hunt added: the creatorId, huntName and pins
\* of the argument, the _id of the identifier and the url returned.  And no
\* step of getHuntById, getUserHunts or getAllHunts changes the collections.
C19_AddGetRoundTrip ==
    [][\A i \in 1..Len(calls') :
          (/\ calls'[i].op \in {"getHuntById", "getUserHunts", "getAllHunts"}
           /\ \/ i > Len(calls)
              \/ calls'[i] # calls[i])
             => /\ Hunts' = Hunts /\ Users' = Users
                /\ \A a \in 1..Len(calls) :
                      (/\ i <= Len(calls) /\ calls[i].op = "getHuntById"
                       /\ calls'[i].failed = NoFailure
                       /\ calls[a].op = "addHunt" /\ calls[a].out = "resolved"
                       /\ a \in calls[i].prior
                       /\ calls[a].value = JsString("http://" \o playSubdomain \o "."
                                                \o domain \o "/" \o calls[i].arg)
                       /\ ~Touched(ObjectID(calls[i].arg)))
                         => /\ calls'[i].out = "resolved"
                            /\ calls'[i].value =
                                  JsDoc([_id |-> ObjectID(calls[i].arg),
                                         url |-> calls[a].value,
                                         creatorId |-> calls[a].arg.creatorId,
                                         huntName |-> calls[a].arg.huntName,
                                         pins |-> calls[a].arg.pins])]_vars

\* addHunt resolved to a url, then getHuntById of the identifier ending the
\* url was invoked and has resolved to a hunt
C19_Witness ==
    \E a, i \in CallIds :
        /\ calls[a].op = "addHunt" /\ calls[a].out = "resolved"
        /\ calls[i].op = "getHuntById" /\ a \in calls[i].prior
        /\ calls[a].value = JsString(HuntUrl(ObjectID(calls[i].arg)))
        /\ calls[i].out = "resolved"
        /\ calls[i].value.type = "object"
        /\ calls[i].value.doc.huntName = calls[a].arg.huntName
        /\ Len(Hunts) = 1

-----------------------------------------------------------------------------
(* Properties of all operations, checked under Spec *)

\* the calls made to the hasher; the others are made to the storage engine
HashCalls == {"hash", "compare"}

\* C14: failure propagation.  In every reachable state, an invocation one of
\* whose storage or hash calls has failed is rejected with that cause: it
\* is never resolved, at that step or later, and the failed call is the last
\* call it has issued, each call having been issued once (no retry).
C14_FailurePropagation ==
    \A i \in CallIds :
        calls[i].failed # NoFailure
            => /\ calls[i].out = "rejected"
               /\ calls[i].value = JsError(calls[i].failed)
               /\ calls[i].pc = "done"
               /\ LET issued == calls[i].issued
                  IN /\ issued # <<>>
                     /\ (calls[i].failed = HashFailure)
                            <=> (issued[Len(issued)] \in HashCalls)
                     /\ \A m, n \in 1..Len(issued) : issued[m] = issued[n] => m = n

\* a findOrCreateUser whose hashing succeeded and whose upsert the engine
\* failed has been rejected
C14_Witness ==
    \E i \in CallIds :
        /\ IsFindOrCreate(i)
        /\ calls[i].hash # JsUndefined
        /\ calls[i].failed = StoreFailure
        /\ calls[i].out = "rejected"

\* C16: every invocation of an exported function eventually settles, and
\* settles once: its promise becomes resolved or rejected, and a promise
\* that is resolved or rejected keeps its outcome and its value.
C16_SettlesExactlyOnce ==
    /\ \A i \in 1..MaxCalls :
         (i <= Len(calls))
            ~> (i <= Len(calls) /\ calls[i].out \in {"resolved", "rejected"})
    /\ [][\A i \in 1..Len(calls) :
            calls[i].out \in {"resolved", "rejected"}
                => (calls'[i].out = calls[i].out /\ calls'[i].value = calls[i].value)]_vars

====
